---- MODULE Spec2Model ----
(***************************************************************************)
(* Model of luxdefi/netrunner, package local: the node handle's peer       *)
(* attachment (localNode.AttachPeer, localNode.SendOutboundMessage in      *)
(* local/node.go) and the flag helpers of the node provisioning code.      *)
(*                                                                         *)
(* One AttachPeer invocation is one element of Calls.  The peer object a   *)
(* call creates with peer.Start is named by the call that created it.      *)
(* Time is counted in seconds.                                             *)
(***************************************************************************)
EXTENDS Integers, Sequences, FiniteSets, TLC

(***************************************************************************)
(* Bounds of the model.                                                    *)
(***************************************************************************)
MaxCalls == 2
MaxSends == 3
MaxTime == 40
TickSeconds == 10
MaxMerges == 2
MaxQueue == 2

(***************************************************************************)
(* Program constants.  peerMsgQueueBufferSize is 1024 in the source; the   *)
(* model runs the queue at the capacity MaxQueue, small enough to fill.    *)
(***************************************************************************)
peerMsgQueueBufferSize == MaxQueue
peerStartWaitTimeout == 30

Calls == 1..MaxCalls
NoPeer == 0
NoDeadline == -1

\* Timeouts a caller may put on the context it passes to AttachPeer.
CallerTimeouts == {10, 50}

\* Certificates: the ephemeral ones staking.NewTLSCert can return and the one
\* the target node presents as the responder of the TLS handshake.
EphemeralCerts == {"certA", "certB"}
NodeCert == "certN"
NoCert == "none"
Certs == EphemeralCerts \cup {NodeCert}

\* ids.NodeIDFromCert followed by NodeID.String(): certificate -> identity.
NodeIDFromCert(cert) ==
    CASE cert = "certA" -> "NodeID-A"
      [] cert = "certB" -> "NodeID-B"
      [] cert = "certN" -> "NodeID-N"
      [] OTHER -> "NodeID-0"

PeerIDs == {NodeIDFromCert(c) : c \in Certs}

\* Arguments of SendOutboundMessage: identities a call can ask for and
\* <<opcode, payload>> pairs.
SendIDs == {NodeIDFromCert(c) : c \in EphemeralCerts}
SendArgs == {<<1, 10>>, <<2, 20>>}

\* Flag maps, map[string]interface{}: flag names and the values they can hold,
\* each value with its dynamic type.
FlagNames == {"http-port", "log-level", "staking-port"}
FlagValues == {[type |-> "string", val |-> 1], [type |-> "int", val |-> 2]}
FlagMaps == UNION {[D -> FlagValues] : D \in SUBSET FlagNames}

VARIABLES
    attachedPeers,  \* localNode.attachedPeers: identity string -> peer
    mapSnap,        \* the map as read by a call inside the map assignment
    crashed,        \* the Go runtime ended the process (fatal error)
    pc,             \* stage of each AttachPeer call
    err,            \* error each call returned ("" while none)
    ctxDeadline,    \* deadline of the context of a call in progress, if any
    ctxCancelled,   \* the caller cancelled the context of a call in progress
    tlsCert,        \* certificate generated by staking.NewTLSCert
    dials,          \* number of times the call invoked getConnFunc
    connOpen,       \* the call's connection is open
    peerCert,       \* certificate captured by clientUpgrader.Upgrade
    peerId,         \* id handed to peer.Start, what p.ID() reports
    peerReady,      \* the peer finished the protocol handshake
    peerClosed,     \* the peer started closing
    waitStart,      \* time at which context.WithTimeout was called
    queue,          \* the peer's outbound message queue
    delivered,      \* messages the peer's writer took off the queue, in order
    sentLog,        \* messages the queue accepted, in the order of the calls
    regLog,         \* calls in the order in which they stored into the map
    lastSend,       \* arguments and result of the latest SendOutboundMessage
    sends,          \* number of SendOutboundMessage calls made
    now,            \* current time
    networkConfigFlags,    \* networkFlags of the latest addNetworkFlags call
    nodeConfigFlags,       \* the node's flag map, nodeConfig.Flags
    nodeConfigFlagsBefore, \* nodeConfig.Flags as the latest call found it
    merges,                \* number of addNetworkFlags calls made
    call,           \* the latest call of a provisioning helper, with its arguments
    ret,            \* what that call returned
    fsDirs,         \* the directories of the file system
    fsFiles         \* the files of the file system: path -> contents

attachVars == <<attachedPeers, mapSnap, crashed, pc, err, ctxDeadline,
                ctxCancelled, tlsCert, dials, connOpen, peerCert, peerId,
                peerReady, peerClosed, waitStart, queue, delivered, sentLog,
                regLog, lastSend, sends, now>>
helperVars == <<call, ret, fsDirs, fsFiles>>
flagVars == <<networkConfigFlags, nodeConfigFlags, nodeConfigFlagsBefore, merges,
              helperVars>>
vars == <<attachVars, flagVars>>

(***************************************************************************)
(* Helpers.                                                                *)
(***************************************************************************)
EmptyMap == [k \in {} |-> NoPeer]

Min(S) == CHOOSE x \in S : \A y \in S : x <= y

Range(f) == {f[k] : k \in DOMAIN f}

\* m[k] = v of a Go map.
MapStore(m, k, v) == [x \in DOMAIN m \cup {k} |-> IF x = k THEN v ELSE m[x]]

\* ctx.Done() of a context with the given deadline and cancellation state.
Done(deadline, cancelled) ==
    cancelled \/ (deadline # NoDeadline /\ now >= deadline)

\* Variant of WithTimeout: the derived context keeps the parent's deadline and
\* the timeout is dropped.
WithTimeoutParentOnly(parentDeadline, t, timeout) == parentDeadline

\* context.WithTimeout(parent, timeout) called at time t: the deadline of the
\* derived context is the earlier of the parent's and t + timeout.
WithTimeout(parentDeadline, t, timeout) ==
    IF parentDeadline # NoDeadline /\ parentDeadline <= t + timeout
    THEN parentDeadline
    ELSE t + timeout

\* Variant of DialDeadline: the dial runs under no deadline (a plain Dial).
DialDeadlineNone(c) == NoDeadline

\* The context the dial runs under: getConnFunc(ctx, node) hands the caller's
\* context to net.Dialer.DialContext.
DialDeadline(c) == ctxDeadline[c]

\* cctx of AttachPeer: the context AwaitReady runs under.
AwaitDeadline(c) == WithTimeout(ctxDeadline[c], waitStart[c], peerStartWaitTimeout)

\* Variant of StartID: the id Upgrade derived from the responder's certificate.
StartIDFromResponder(ownCert, responderCert) == NodeIDFromCert(responderCert)

\* The id AttachPeer hands to peer.Start: ids.NodeIDFromCert(tlsCert.Leaf).  The
\* id Upgrade returned for the responder's certificate is discarded.
StartID(ownCert, responderCert) == NodeIDFromCert(ownCert)

\* p.ID().String(), the registry key of line 183.
RegistryKey(c) == peerId[c]

\* message.NewTestMsg(message.Op(op), content, false)
NewTestMsg(op, content) == [op |-> op, content |-> content]

\* What staking.NewTLSCert can return: a certificate no call has had yet, or
\* (a collision of identities) one an earlier call had.  Certificates are named
\* in the order in which they first appear.
NextCerts ==
    {cert \in EphemeralCerts :
        cert = "certB" => \E b \in Calls : tlsCert[b] = "certA"}

\* Calls inside the map assignment of line 183.
MapWriters == {c \in Calls : pc[c] = "Registering"}

InProgress(c) == pc[c] \in {"Dialing", "Handshaking", "AwaitingReady", "Registering"}

Started(c) == peerId[c] # ""

NoSend == [peerID |-> "", op |-> 0, content |-> 0, result |-> "", to |-> NoPeer]

(***************************************************************************)
(* Initial state: a freshly constructed localNode, no AttachPeer call made. *)
(***************************************************************************)
AttachInit ==
    /\ attachedPeers = EmptyMap
    /\ mapSnap = [c \in Calls |-> EmptyMap]
    /\ crashed = FALSE
    /\ pc = [c \in Calls |-> "Idle"]
    /\ err = [c \in Calls |-> ""]
    /\ ctxDeadline = [c \in Calls |-> NoDeadline]
    /\ ctxCancelled = [c \in Calls |-> FALSE]
    /\ tlsCert = [c \in Calls |-> NoCert]
    /\ dials = [c \in Calls |-> 0]
    /\ connOpen = [c \in Calls |-> FALSE]
    /\ peerCert = [c \in Calls |-> NoCert]
    /\ peerId = [c \in Calls |-> ""]
    /\ peerReady = [c \in Calls |-> FALSE]
    /\ peerClosed = [c \in Calls |-> FALSE]
    /\ waitStart = [c \in Calls |-> 0]
    /\ queue = [c \in Calls |-> <<>>]
    /\ delivered = [c \in Calls |-> <<>>]
    /\ sentLog = [c \in Calls |-> <<>>]
    /\ regLog = <<>>
    /\ lastSend = NoSend
    /\ sends = 0
    /\ now = 0

\* A handle whose node config carries no flags.
FlagInit ==
    /\ networkConfigFlags = EmptyMap
    /\ nodeConfigFlags = EmptyMap
    /\ nodeConfigFlagsBefore = EmptyMap
    /\ merges = 0

\* No helper called yet, an empty file system.
HelperInit ==
    /\ call = [fn |-> "none"]
    /\ ret = [fn |-> "none"]
    /\ fsDirs = {}
    /\ fsFiles = EmptyMap

Init == AttachInit /\ FlagInit /\ HelperInit

(***************************************************************************)
(* AttachPeer, lines 84-185.                                               *)
(***************************************************************************)
peerVars == <<peerCert, peerId, peerReady, peerClosed, waitStart>>
sendVars == <<queue, delivered, sentLog, lastSend, sends>>
mapVars == <<attachedPeers, mapSnap, regLog>>

\* AttachPeer is called: the caller's context is fixed, staking.NewTLSCert
\* succeeds and the call enters getConnFunc (lines 85-91).  Calls are numbered
\* in the order in which they are made.
StartAttach(c) ==
    /\ ~crashed
    /\ pc[c] = "Idle"
    /\ \A b \in Calls : b < c => pc[b] # "Idle"
    /\ \E d \in {NoDeadline} \cup {now + t : t \in CallerTimeouts} :
          ctxDeadline' = [ctxDeadline EXCEPT ![c] = d]
    /\ \E cert \in NextCerts : tlsCert' = [tlsCert EXCEPT ![c] = cert]
    /\ dials' = [dials EXCEPT ![c] = @ + 1]
    /\ pc' = [pc EXCEPT ![c] = "Dialing"]
    /\ UNCHANGED <<mapVars, crashed, err, ctxCancelled, connOpen, peerVars,
                   sendVars, now, flagVars>>

\* AttachPeer is called and staking.NewTLSCert fails (lines 85-88).
CertFail(c) ==
    /\ ~crashed
    /\ pc[c] = "Idle"
    /\ \A b \in Calls : b < c => pc[b] # "Idle"
    /\ pc' = [pc EXCEPT ![c] = "Failed"]
    /\ err' = [err EXCEPT ![c] = "cert"]
    /\ ctxDeadline' = [ctxDeadline EXCEPT ![c] = NoDeadline]
    /\ ctxCancelled' = [ctxCancelled EXCEPT ![c] = FALSE]
    /\ UNCHANGED <<mapVars, crashed, tlsCert, dials,
                   connOpen, peerVars, sendVars, now, flagVars>>

\* The caller cancels the context of a call in progress.
CancelCtx(c) ==
    /\ ~crashed
    /\ InProgress(c)
    /\ ~ctxCancelled[c]
    /\ ctxCancelled' = [ctxCancelled EXCEPT ![c] = TRUE]
    /\ UNCHANGED <<mapVars, crashed, pc, err, ctxDeadline, tlsCert, dials,
                   connOpen, peerVars, sendVars, now, flagVars>>

\* getConnFunc returns a connection and the engine configuration is built
\* (lines 91-159).
DialSucceed(c) ==
    /\ ~crashed
    /\ pc[c] = "Dialing"
    /\ ~Done(DialDeadline(c), ctxCancelled[c])
    /\ connOpen' = [connOpen EXCEPT ![c] = TRUE]
    /\ pc' = [pc EXCEPT ![c] = "Handshaking"]
    /\ UNCHANGED <<mapVars, crashed, err, ctxDeadline, ctxCancelled, tlsCert,
                   dials, peerVars, sendVars, now, flagVars>>

\* getConnFunc returns a connection, then message.NewCreator,
\* NewCreatorWithProto, peer.NewMetrics or tracker.NewResourceTracker fails
\* (lines 95-134): the call returns the error, the connection stays open.
ConfigFail(c) ==
    /\ ~crashed
    /\ pc[c] = "Dialing"
    /\ ~Done(DialDeadline(c), ctxCancelled[c])
    /\ connOpen' = [connOpen EXCEPT ![c] = TRUE]
    /\ pc' = [pc EXCEPT ![c] = "Failed"]
    /\ err' = [err EXCEPT ![c] = "config"]
    /\ ctxDeadline' = [ctxDeadline EXCEPT ![c] = NoDeadline]
    /\ ctxCancelled' = [ctxCancelled EXCEPT ![c] = FALSE]
    /\ UNCHANGED <<mapVars, crashed, tlsCert, dials,
                   peerVars, sendVars, now, flagVars>>

\* Variant of DialFail: a refused dial is tried again.
DialFailRetries(c) ==
    /\ ~crashed
    /\ pc[c] = "Dialing"
    /\ dials' = [dials EXCEPT ![c] = @ + 1]
    /\ UNCHANGED <<mapVars, crashed, pc, err, ctxDeadline, ctxCancelled, tlsCert,
                   connOpen, peerVars, sendVars, now, flagVars>>

\* getConnFunc fails: the endpoint refuses the connection (lines 91-94).
DialFail(c) ==
    /\ ~crashed
    /\ pc[c] = "Dialing"
    /\ pc' = [pc EXCEPT ![c] = "Failed"]
    /\ err' = [err EXCEPT ![c] = "dial"]
    /\ ctxDeadline' = [ctxDeadline EXCEPT ![c] = NoDeadline]
    /\ ctxCancelled' = [ctxCancelled EXCEPT ![c] = FALSE]
    /\ UNCHANGED <<mapVars, crashed, tlsCert, dials,
                   connOpen, peerVars, sendVars, now, flagVars>>

\* DialContext gives up because its context is done (lines 80, 91-94).
DialCtxDone(c) ==
    /\ ~crashed
    /\ pc[c] = "Dialing"
    /\ Done(DialDeadline(c), ctxCancelled[c])
    /\ pc' = [pc EXCEPT ![c] = "Failed"]
    /\ err' = [err EXCEPT ![c] = IF ctxCancelled[c] THEN "dial canceled"
                                                    ELSE "dial deadline exceeded"]
    /\ ctxDeadline' = [ctxDeadline EXCEPT ![c] = NoDeadline]
    /\ ctxCancelled' = [ctxCancelled EXCEPT ![c] = FALSE]
    /\ UNCHANGED <<mapVars, crashed, tlsCert, dials,
                   connOpen, peerVars, sendVars, now, flagVars>>

\* Variant of UpgradeSucceed: the peer is stored into the map as soon as it is
\* started, before the readiness wait.
UpgradeSucceedRegisters(c) ==
    /\ ~crashed
    /\ pc[c] = "Handshaking"
    /\ peerCert' = [peerCert EXCEPT ![c] = NodeCert]
    /\ peerId' = [peerId EXCEPT ![c] = StartID(tlsCert[c], NodeCert)]
    /\ waitStart' = [waitStart EXCEPT ![c] = now]
    /\ attachedPeers' = MapStore(attachedPeers, StartID(tlsCert[c], NodeCert), c)
    /\ pc' = [pc EXCEPT ![c] = "AwaitingReady"]
    /\ UNCHANGED <<mapSnap, regLog, crashed, err, ctxDeadline, ctxCancelled,
                   tlsCert, dials, connOpen, peerReady, peerClosed, sendVars, now,
                   flagVars>>

\* clientUpgrader.Upgrade succeeds; peer.Start runs the engine on the upgraded
\* connection and context.WithTimeout starts the readiness wait (lines 160-177).
UpgradeSucceed(c) ==
    /\ ~crashed
    /\ pc[c] = "Handshaking"
    /\ peerCert' = [peerCert EXCEPT ![c] = NodeCert]
    /\ peerId' = [peerId EXCEPT ![c] = StartID(tlsCert[c], NodeCert)]
    /\ waitStart' = [waitStart EXCEPT ![c] = now]
    /\ pc' = [pc EXCEPT ![c] = "AwaitingReady"]
    /\ UNCHANGED <<mapVars, crashed, err, ctxDeadline, ctxCancelled, tlsCert,
                   dials, connOpen, peerReady, peerClosed, sendVars, now, flagVars>>

\* clientUpgrader.Upgrade fails (lines 160-163).  Upgrade takes no context.
UpgradeFail(c) ==
    /\ ~crashed
    /\ pc[c] = "Handshaking"
    /\ pc' = [pc EXCEPT ![c] = "Failed"]
    /\ err' = [err EXCEPT ![c] = "handshake"]
    /\ ctxDeadline' = [ctxDeadline EXCEPT ![c] = NoDeadline]
    /\ ctxCancelled' = [ctxCancelled EXCEPT ![c] = FALSE]
    /\ UNCHANGED <<mapVars, crashed, tlsCert, dials,
                   connOpen, peerVars, sendVars, now, flagVars>>

\* The started peer finishes the protocol handshake with the node.
PeerHandshakeDone(c) ==
    /\ ~crashed
    /\ Started(c)
    /\ ~peerReady[c]
    /\ ~peerClosed[c]
    /\ peerReady' = [peerReady EXCEPT ![c] = TRUE]
    /\ UNCHANGED <<mapVars, crashed, pc, err, ctxDeadline, ctxCancelled, tlsCert,
                   dials, connOpen, peerCert, peerId, peerClosed, waitStart,
                   sendVars, now, flagVars>>

\* The started peer starts closing: the node or the network ends the connection.
PeerClose(c) ==
    /\ ~crashed
    /\ Started(c)
    /\ ~peerClosed[c]
    /\ peerClosed' = [peerClosed EXCEPT ![c] = TRUE]
    /\ connOpen' = [connOpen EXCEPT ![c] = FALSE]
    /\ UNCHANGED <<mapVars, crashed, pc, err, ctxDeadline, ctxCancelled, tlsCert,
                   dials, peerCert, peerId, peerReady, waitStart, sendVars, now,
                   flagVars>>

\* p.AwaitReady(cctx) returns nil and the call enters the map assignment of
\* line 183, reading the map (lines 177-183).
AwaitReadyOK(c) ==
    /\ ~crashed
    /\ pc[c] = "AwaitingReady"
    /\ peerReady[c]
    /\ mapSnap' = [mapSnap EXCEPT ![c] = attachedPeers]
    /\ pc' = [pc EXCEPT ![c] = "Registering"]
    /\ UNCHANGED <<attachedPeers, regLog, crashed, err, ctxDeadline, ctxCancelled,
                   tlsCert, dials, connOpen, peerVars, sendVars, now, flagVars>>

\* p.AwaitReady(cctx) returns an error because the peer started closing.
AwaitReadyClosed(c) ==
    /\ ~crashed
    /\ pc[c] = "AwaitingReady"
    /\ peerClosed[c]
    /\ pc' = [pc EXCEPT ![c] = "Failed"]
    /\ err' = [err EXCEPT ![c] = "closed"]
    /\ ctxDeadline' = [ctxDeadline EXCEPT ![c] = NoDeadline]
    /\ ctxCancelled' = [ctxCancelled EXCEPT ![c] = FALSE]
    /\ UNCHANGED <<mapVars, crashed, tlsCert, dials,
                   connOpen, peerVars, sendVars, now, flagVars>>

\* p.AwaitReady(cctx) returns cctx's error: the 30 second bound elapsed, the
\* caller's deadline passed or the caller cancelled (lines 176-181).
AwaitReadyCtxDone(c) ==
    /\ ~crashed
    /\ pc[c] = "AwaitingReady"
    /\ Done(AwaitDeadline(c), ctxCancelled[c])
    /\ pc' = [pc EXCEPT ![c] = "Failed"]
    /\ err' = [err EXCEPT ![c] = IF ctxCancelled[c] THEN "canceled"
                                                    ELSE "deadline exceeded"]
    /\ ctxDeadline' = [ctxDeadline EXCEPT ![c] = NoDeadline]
    /\ ctxCancelled' = [ctxCancelled EXCEPT ![c] = FALSE]
    /\ UNCHANGED <<mapVars, crashed, tlsCert, dials,
                   connOpen, peerVars, sendVars, now, flagVars>>

\* node.attachedPeers[p.ID().String()] = p completes and the call returns the
\* peer (lines 183-184).  The map has no lock: the assignment stores into the
\* map as the call read it.
MapAssign(c) ==
    /\ ~crashed
    /\ pc[c] = "Registering"
    /\ attachedPeers' = MapStore(mapSnap[c], RegistryKey(c), c)
    /\ regLog' = Append(regLog, c)
    /\ mapSnap' = [mapSnap EXCEPT ![c] = EmptyMap]
    /\ pc' = [pc EXCEPT ![c] = "Attached"]
    /\ ctxDeadline' = [ctxDeadline EXCEPT ![c] = NoDeadline]
    /\ ctxCancelled' = [ctxCancelled EXCEPT ![c] = FALSE]
    /\ UNCHANGED <<crashed, err, tlsCert, dials,
                   connOpen, peerVars, sendVars, now, flagVars>>

\* Two calls are inside the map assignment at once and the Go runtime detects
\* it: "fatal error: concurrent map writes" ends the process.
ConcurrentMapWrites ==
    /\ ~crashed
    /\ Cardinality(MapWriters) >= 2
    /\ crashed' = TRUE
    /\ UNCHANGED <<mapVars, pc, err, ctxDeadline, ctxCancelled, tlsCert, dials,
                   connOpen, peerVars, sendVars, now, flagVars>>

(***************************************************************************)
(* SendOutboundMessage, lines 187-194.                                     *)
(***************************************************************************)
\* What the map read of line 188 can observe.  With no call inside the map
\* assignment it is the map.  A read that overlaps an assignment is a data
\* race: it observes the map before the store, the map after it, or a map in
\* which the key is not found.
MapViews ==
    IF MapWriters = {}
    THEN {attachedPeers}
    ELSE {attachedPeers, EmptyMap}
         \cup {MapStore(mapSnap[w], RegistryKey(w), w) : w \in MapWriters}

\* peer.Send on the blocking message queue: a closing peer or a full queue
\* does not take the message (the push gives up when its context ends).
PeerAccepts(p) == ~peerClosed[p] /\ Len(queue[p]) < peerMsgQueueBufferSize

\* The whole call: look peerID up, build the message, hand it to the peer.
SendOutboundMessage(peerID, content, op) ==
    /\ ~crashed
    /\ sends < MaxSends
    /\ sends' = sends + 1
    /\ \E m \in MapViews :
          IF peerID \notin DOMAIN m
          THEN /\ lastSend' = [peerID |-> peerID, op |-> op, content |-> content,
                               result |-> "not attached", to |-> NoPeer]
               /\ UNCHANGED <<queue, sentLog>>
          ELSE LET p == m[peerID]
                   msg == NewTestMsg(op, content)
               IN IF PeerAccepts(p)
                  THEN /\ queue' = [queue EXCEPT ![p] = Append(@, msg)]
                       /\ sentLog' = [sentLog EXCEPT ![p] = Append(@, msg)]
                       /\ lastSend' = [peerID |-> peerID, op |-> op,
                                       content |-> content, result |-> "true",
                                       to |-> p]
                  ELSE /\ lastSend' = [peerID |-> peerID, op |-> op,
                                       content |-> content, result |-> "false",
                                       to |-> p]
                       /\ UNCHANGED <<queue, sentLog>>
    /\ UNCHANGED <<mapVars, crashed, pc, err, ctxDeadline, ctxCancelled, tlsCert,
                   dials, connOpen, peerVars, delivered, now, flagVars>>

\* The map read of line 188 overlaps a map assignment and the Go runtime
\* detects it: "fatal error: concurrent map read and map write".
ConcurrentMapReadWrite(peerID, content, op) ==
    /\ ~crashed
    /\ sends < MaxSends
    /\ MapWriters # {}
    /\ sends' = sends + 1
    /\ lastSend' = [peerID |-> peerID, op |-> op, content |-> content,
                    result |-> "fatal", to |-> NoPeer]
    /\ crashed' = TRUE
    /\ UNCHANGED <<mapVars, pc, err, ctxDeadline, ctxCancelled, tlsCert, dials,
                   connOpen, peerVars, queue, delivered, sentLog, now, flagVars>>

\* Variant of Deliver: the writer takes the newest message off the queue.
DeliverNewest(p) ==
    /\ ~crashed
    /\ ~peerClosed[p]
    /\ queue[p] # <<>>
    /\ delivered' = [delivered EXCEPT ![p] = Append(@, queue[p][Len(queue[p])])]
    /\ queue' = [queue EXCEPT ![p] = SubSeq(@, 1, Len(@) - 1)]
    /\ UNCHANGED <<mapVars, crashed, pc, err, ctxDeadline, ctxCancelled, tlsCert,
                   dials, connOpen, peerVars, sentLog, lastSend, sends, now,
                   flagVars>>

\* The peer's writer takes the oldest message off the outbound queue and
\* writes it to the connection.
Deliver(p) ==
    /\ ~crashed
    /\ ~peerClosed[p]
    /\ queue[p] # <<>>
    /\ delivered' = [delivered EXCEPT ![p] = Append(@, Head(queue[p]))]
    /\ queue' = [queue EXCEPT ![p] = Tail(@)]
    /\ UNCHANGED <<mapVars, crashed, pc, err, ctxDeadline, ctxCancelled, tlsCert,
                   dials, connOpen, peerVars, sentLog, lastSend, sends, now,
                   flagVars>>

(***************************************************************************)
(* Time.  A call blocked in DialContext or in AwaitReady leaves it when    *)
(* the deadline of its context is reached, so time does not pass such a    *)
(* deadline while the call is still blocked there.  Upgrade has no         *)
(* deadline.                                                               *)
(***************************************************************************)
ActiveDeadlines ==
    {DialDeadline(c) : c \in {x \in Calls : pc[x] = "Dialing"}}
    \cup {AwaitDeadline(c) : c \in {x \in Calls : pc[x] = "AwaitingReady"}}

Tick ==
    /\ ~crashed
    /\ now < MaxTime
    /\ \A d \in ActiveDeadlines : d = NoDeadline \/ now < d
    /\ now' = Min({now + TickSeconds, MaxTime}
                  \cup {d \in ActiveDeadlines : d # NoDeadline})
    /\ UNCHANGED <<mapVars, crashed, pc, err, ctxDeadline, ctxCancelled, tlsCert,
                   dials, connOpen, peerVars, sendVars, flagVars>>

AttachNext ==
    \/ \E c \in Calls : StartAttach(c)
    \/ \E c \in Calls : CertFail(c)
    \/ \E c \in Calls : CancelCtx(c)
    \/ \E c \in Calls : DialSucceed(c)
    \/ \E c \in Calls : ConfigFail(c)
    \/ \E c \in Calls : DialFail(c)
    \/ \E c \in Calls : DialCtxDone(c)
    \/ \E c \in Calls : UpgradeSucceed(c)
    \/ \E c \in Calls : UpgradeFail(c)
    \/ \E c \in Calls : PeerHandshakeDone(c)
    \/ \E c \in Calls : PeerClose(c)
    \/ \E c \in Calls : AwaitReadyOK(c)
    \/ \E c \in Calls : AwaitReadyClosed(c)
    \/ \E c \in Calls : AwaitReadyCtxDone(c)
    \/ \E c \in Calls : MapAssign(c)
    \/ ConcurrentMapWrites

SendNext ==
    \/ \E id \in SendIDs, a \in SendArgs : SendOutboundMessage(id, a[2], a[1])
    \/ \E id \in SendIDs, a \in SendArgs : ConcurrentMapReadWrite(id, a[2], a[1])
    \/ \E p \in Calls : Deliver(p)

(***************************************************************************)
(* Spec: the calls on one handle, with every event inside one second (the  *)
(* contexts end by cancellation).  SpecTimed: the AttachPeer calls with    *)
(* time passing, and no message sent.                                      *)
(***************************************************************************)
Next == AttachNext \/ SendNext

Spec == Init /\ [][Next]_vars

TimedNext == AttachNext \/ Tick

SpecTimed == Init /\ [][TimedNext]_vars

(***************************************************************************)
(* addNetworkFlags, part_000 lines 205-215.                                *)
(***************************************************************************)
\* Variant of addNetworkFlag: the network's value replaces the node's.
addNetworkFlagOverwrites(nodeFlags, flagName, flagVal) ==
    MapStore(nodeFlags, flagName, flagVal)

\* The body of the loop: one flag of the network config.
addNetworkFlag(nodeFlags, flagName, flagVal) ==
    IF flagName \notin DOMAIN nodeFlags
    THEN MapStore(nodeFlags, flagName, flagVal)
    ELSE nodeFlags

\* for flagName, flagVal := range networkFlags, over the flags still to visit.
RECURSIVE addNetworkFlagsRange(_, _, _)
addNetworkFlagsRange(todo, networkFlags, nodeFlags) ==
    IF todo = {}
    THEN nodeFlags
    ELSE LET flagName == CHOOSE k \in todo : TRUE
         IN addNetworkFlagsRange(todo \ {flagName}, networkFlags,
                addNetworkFlag(nodeFlags, flagName, networkFlags[flagName]))

addNetworkFlags(networkFlags, nodeFlags) ==
    addNetworkFlagsRange(DOMAIN networkFlags, networkFlags, nodeFlags)

\* A call addNetworkFlags(networkFlags, nodeConfig.Flags); the node's map is
\* changed in place.
AddNetworkFlags(networkFlags) ==
    /\ merges < MaxMerges
    /\ merges' = merges + 1
    /\ networkConfigFlags' = networkFlags
    /\ nodeConfigFlagsBefore' = nodeConfigFlags
    /\ nodeConfigFlags' = addNetworkFlags(networkFlags, nodeConfigFlags)
    /\ UNCHANGED <<attachVars, helperVars>>

MergeNext == \E networkFlags \in FlagMaps : AddNetworkFlags(networkFlags)

\* The node config's flags are any non-nil map.
MergeInit ==
    /\ AttachInit
    /\ networkConfigFlags = EmptyMap
    /\ nodeConfigFlags \in FlagMaps
    /\ nodeConfigFlagsBefore = nodeConfigFlags
    /\ merges = 0
    /\ HelperInit

SpecFlags == MergeInit /\ [][MergeNext]_vars

(***************************************************************************)
(* Properties.                                                             *)
(***************************************************************************)
Returned(c) == pc[c] \in {"Attached", "Failed"}

AllReturned == \A c \in Calls : pc[c] = "Idle" \/ Returned(c)

\* The map once the assignment a call is inside has completed.
MapAfter(w) == MapStore(mapSnap[w], RegistryKey(w), w)

\* A step that is a SendOutboundMessage call.
SendStep == sends' = sends + 1

\* C1: when AttachPeer calls run concurrently and each succeeds, every one of
\* their identities is a key of attachedPeers after all calls have returned,
\* and a concurrent SendOutboundMessage lookup sees the registry as it was
\* before an insertion or as it is after it, never anything else.
ConcurrentAttachLosesNothing ==
    [][ /\ (AllReturned' /\ ~crashed') =>
              \A c \in Calls : pc'[c] = "Attached" =>
                  peerId'[c] \in DOMAIN attachedPeers'
        /\ ~crashed'
        /\ SendStep =>
              \E m \in {attachedPeers} \cup {MapAfter(w) : w \in MapWriters} :
                  IF lastSend'.peerID \in DOMAIN m
                  THEN lastSend'.to = m[lastSend'.peerID]
                  ELSE lastSend'.result = "not attached" ]_vars

\* C2: an AttachPeer call that returns an error has not changed attachedPeers:
\* the step on which it fails leaves the map as it is, and the call never
\* stored into the map nor is its peer in it.
FailedAttachLeavesRegistry ==
    /\ [](\A c \in Calls : pc[c] = "Failed" =>
              /\ c \notin Range(regLog)
              /\ c \notin Range(attachedPeers))
    /\ [][\A c \in Calls : (pc[c] # "Failed" /\ pc'[c] = "Failed") =>
              /\ attachedPeers' = attachedPeers
              /\ err'[c] # ""]_vars

\* Witness of C2: a call failed on the readiness timeout while a peer of
\* another call is registered.
FailedAttachBesideRegistered ==
    \E c \in Calls :
        /\ pc[c] = "Failed"
        /\ err[c] = "deadline exceeded"
        /\ Started(c)
        /\ attachedPeers # EmptyMap

\* The stages of the specification's state machine; the map assignment belongs
\* to the end of AwaitingReady.
Stage(p) == IF p = "Registering" THEN "AwaitingReady" ELSE p

StageRank(st) ==
    CASE st = "Idle" -> 0
      [] st = "Dialing" -> 1
      [] st = "Handshaking" -> 2
      [] st = "AwaitingReady" -> 3
      [] st = "Attached" -> 4
      [] OTHER -> 9

\* C3: a call goes through Idle, Dialing, Handshaking, AwaitingReady, Attached
\* in that order, one stage at a time: it handshakes only on a connection the
\* dial returned, waits only for a peer the handshake produced, stores into the
\* map only a peer that reported ready; a failure ends it in Failed with an
\* error; it dials at most once.
StagesInOrder ==
    /\ [](\A c \in Calls :
              /\ dials[c] <= 1
              /\ pc[c] = "Handshaking" => (connOpen[c] /\ dials[c] = 1)
              /\ pc[c] = "AwaitingReady" => peerCert[c] = NodeCert
              /\ pc[c] \in {"Registering", "Attached"} => peerReady[c]
              /\ c \in Range(regLog) => pc[c] = "Attached"
              /\ pc[c] = "Failed" <=> err[c] # "")
    /\ [][\A c \in Calls : Stage(pc'[c]) # Stage(pc[c]) =>
              \/ /\ pc'[c] = "Failed"
                 /\ pc[c] \notin {"Attached", "Failed"}
              \/ StageRank(Stage(pc'[c])) = StageRank(Stage(pc[c])) + 1]_vars

\* Witness of C3: one call went through every stage and is attached, another
\* failed in the handshake.
AttachedBesideFailedHandshake ==
    \E a, b \in Calls :
        /\ pc[a] = "Attached"
        /\ a \in Range(attachedPeers)
        /\ pc[b] = "Failed"
        /\ err[b] = "handshake"

\* C4 as stated: the key under which a peer is stored, and the identity the
\* peer reports, is the identity of the certificate the responder presented.
RegistryKeyIsResponderIdentity ==
    \A k \in DOMAIN attachedPeers :
        /\ k = NodeIDFromCert(peerCert[attachedPeers[k]])
        /\ peerId[attachedPeers[k]] = k

\* C4 as amended: the key under which a peer is stored, and the identity the
\* peer reports, is the identity of the ephemeral certificate the call
\* generated, not that of the certificate the responder presented.
RegistryKeyIsEphemeralIdentity ==
    /\ \A k \in DOMAIN attachedPeers :
          /\ k = NodeIDFromCert(tlsCert[attachedPeers[k]])
          /\ peerId[attachedPeers[k]] = k
          /\ k # NodeIDFromCert(peerCert[attachedPeers[k]])
    /\ \A c \in Calls : Started(c) => peerId[c] = NodeIDFromCert(tlsCert[c])

\* Witness of C4: a call returned its peer and the peer is in the map.
AttachedAndRegistered ==
    \E c \in Calls :
        /\ pc[c] = "Attached"
        /\ peerCert[c] = NodeCert
        /\ peerId[c] \in DOMAIN attachedPeers
        /\ attachedPeers[peerId[c]] = c

\* The call that stored into the map last.
RegisteredLast(a, b) ==
    IF \E i, j \in 1..Len(regLog) : regLog[i] = a /\ regLog[j] = b /\ i < j
    THEN b
    ELSE a

\* C5: after two successful AttachPeer calls, peers of different identities
\* have one entry each, mapping to the peer of its call; peers of one identity
\* have one entry, mapping to the peer of the call that registered last.
TwoAttachesTwoEntries ==
    \A a, b \in Calls :
        (a # b /\ pc[a] = "Attached" /\ pc[b] = "Attached") =>
            IF peerId[a] # peerId[b]
            THEN /\ {peerId[a], peerId[b]} \subseteq DOMAIN attachedPeers
                 /\ attachedPeers[peerId[a]] = a
                 /\ attachedPeers[peerId[b]] = b
            ELSE /\ DOMAIN attachedPeers = {peerId[a]}
                 /\ attachedPeers[peerId[a]] = RegisteredLast(a, b)

\* Some call is inside the assignment that stores under key k.
Pending(k) == \E w \in MapWriters : RegistryKey(w) = k

\* C6: SendOutboundMessage(peerID, payload, opcode) on a peerID that is no key
\* of attachedPeers returns the "not attached" error, hands nothing to any peer
\* and changes nothing; on a peerID that is a key it hands one message with
\* that opcode and payload to the peer stored under peerID, to no other, and
\* returns whether that peer took it, false for a full or closed queue, with
\* no error.
SendContract ==
    [][SendStep =>
          LET k == lastSend'.peerID
              msg == NewTestMsg(lastSend'.op, lastSend'.content)
          IN /\ (k \notin DOMAIN attachedPeers /\ ~Pending(k)) =>
                    /\ lastSend'.result = "not attached"
                    /\ lastSend'.to = NoPeer
                    /\ UNCHANGED <<queue, sentLog, delivered, mapVars, crashed,
                                   pc, err, peerVars>>
             /\ (k \in DOMAIN attachedPeers /\ ~Pending(k)) =>
                    LET p == attachedPeers[k]
                    IN /\ lastSend'.to = p
                       /\ lastSend'.result =
                              (IF PeerAccepts(p) THEN "true" ELSE "false")
                       /\ queue' = IF PeerAccepts(p)
                                   THEN [queue EXCEPT ![p] = Append(@, msg)]
                                   ELSE queue
                       /\ UNCHANGED <<delivered, mapVars, crashed, pc, err,
                                      peerVars>>]_vars

WaitWithinBound ==
    \A c \in Calls :
        pc[c] = "AwaitingReady" => now <= waitStart[c] + peerStartWaitTimeout

\* C8 as stated: the readiness wait ends when the peer reports ready (the call
\* goes on to register), when the 30 seconds have elapsed or when the caller's
\* context is cancelled or at its deadline (the call fails), and by nothing
\* else; the 30 second bound holds whatever the caller's deadline.
WaitEndsByThree ==
    /\ []WaitWithinBound
    /\ [][\A c \in Calls : (pc[c] = "AwaitingReady" /\ pc'[c] # pc[c]) =>
              \/ pc'[c] = "Registering" /\ peerReady[c]
              \/ /\ pc'[c] = "Failed"
                 /\ \/ now >= waitStart[c] + peerStartWaitTimeout
                    \/ Done(ctxDeadline[c], ctxCancelled[c])]_vars

\* C8 as amended: the readiness wait ends by one of those three events or
\* when the peer starts closing, which also fails the call.
WaitEndsByFour ==
    /\ []WaitWithinBound
    /\ [][\A c \in Calls : (pc[c] = "AwaitingReady" /\ pc'[c] # pc[c]) =>
              \/ pc'[c] = "Registering" /\ peerReady[c]
              \/ /\ pc'[c] = "Failed"
                 /\ err'[c] # ""
                 /\ \/ now >= waitStart[c] + peerStartWaitTimeout
                    \/ Done(ctxDeadline[c], ctxCancelled[c])
                    \/ peerClosed[c]]_vars

\* Witness of C8: one call's wait ended because its peer closed, before any
\* deadline; another call, whose context has no deadline, is at the end of the
\* 30 seconds.
WaitEndedByCloseAndBound ==
    \E a, b \in Calls :
        /\ pc[a] = "Failed"
        /\ err[a] = "closed"
        /\ pc[b] = "AwaitingReady"
        /\ ctxDeadline[b] = NoDeadline
        /\ ~ctxCancelled[b]
        /\ now = waitStart[b] + peerStartWaitTimeout

\* C9 as stated: no stage of a call whose context has a deadline blocks the
\* call beyond that deadline.
NoStageOutlastsDeadline ==
    \A c \in Calls :
        (pc[c] \in {"Dialing", "Handshaking", "AwaitingReady"}
         /\ ctxDeadline[c] # NoDeadline) => now <= ctxDeadline[c]

\* C9 as amended: the dial does not block beyond the caller's deadline, and a
\* dial the deadline ends returns a dial-stage error at the deadline; the
\* readiness wait does not block beyond the caller's deadline nor the 30
\* seconds; the handshake between them is bounded by neither.
DialAndWaitBounded ==
    /\ [](\A c \in Calls :
              /\ (pc[c] = "Dialing" /\ ctxDeadline[c] # NoDeadline) =>
                     now <= ctxDeadline[c]
              /\ pc[c] = "AwaitingReady" =>
                     /\ now <= waitStart[c] + peerStartWaitTimeout
                     /\ ctxDeadline[c] # NoDeadline =>
                            (now <= ctxDeadline[c] \/ now = waitStart[c]))
    /\ [][\A c \in Calls :
              (pc[c] = "Dialing" /\ pc'[c] = "Failed" /\ ~ctxCancelled[c]
               /\ ctxDeadline[c] # NoDeadline /\ now >= ctxDeadline[c]) =>
                  /\ now = ctxDeadline[c]
                  /\ err'[c] \in {"dial", "dial deadline exceeded"}]_vars

\* Witness of C9: a dial ended by the caller's deadline, and a wait ended by
\* a deadline.
DialAndWaitEndedByDeadline ==
    \E a, b \in Calls :
        /\ pc[a] = "Failed"
        /\ err[a] = "dial deadline exceeded"
        /\ pc[b] = "Failed"
        /\ err[b] = "deadline exceeded"

\* C10: after addNetworkFlags(A, B) the keys of the node map are those of A or
\* B, every key B had keeps B's value, every key only A had has A's value.
NodeFlagsWin ==
    merges > 0 =>
        /\ DOMAIN nodeConfigFlags =
               DOMAIN networkConfigFlags \cup DOMAIN nodeConfigFlagsBefore
        /\ \A k \in DOMAIN nodeConfigFlagsBefore :
               nodeConfigFlags[k] = nodeConfigFlagsBefore[k]
        /\ \A k \in DOMAIN networkConfigFlags \ DOMAIN nodeConfigFlagsBefore :
               nodeConfigFlags[k] = networkConfigFlags[k]

\* Witness of C10: a merge in which one flag is in both maps with different
\* values, one only in the network's and one only in the node's.
MergeWithAllCases ==
    /\ merges > 0
    /\ \E k \in DOMAIN networkConfigFlags \cap DOMAIN nodeConfigFlagsBefore :
           networkConfigFlags[k] # nodeConfigFlagsBefore[k]
    /\ DOMAIN networkConfigFlags \ DOMAIN nodeConfigFlagsBefore # {}
    /\ DOMAIN nodeConfigFlagsBefore \ DOMAIN networkConfigFlags # {}

(***************************************************************************)
(* Values of map[string]interface{} flag maps as the provisioning helpers  *)
(* see them: the dynamic type, the integral part and the tenths of the     *)
(* fraction (floats only).  Floats are within the uint16 range: Go leaves   *)
(* the conversion of other floats to uint16 to the implementation.        *)
(***************************************************************************)
GoValue(t, v, f) == [type |-> t, val |-> v, frac |-> f]

PortValues ==
    {GoValue("int", 8080, 0), GoValue("int", 65616, 0), GoValue("int", -1, 0),
     GoValue("float64", 9090, 0), GoValue("float64", 9090, 5),
     GoValue("float64", 65535, 9), GoValue("string", 8080, 0)}

PortKeys == {"http-port", "staking-port"}
PortMaps == UNION {[D -> PortValues] : D \in SUBSET PortKeys}

\* The number of uint16 values.
TwoTo16 == 65536

\* uint16(n) of an int n: the low 16 bits.
Uint16OfInt(n) == n % TwoTo16

\* uint16(f) of a float64 f: the fraction is dropped, then the low 16 bits.
Uint16OfFloat(v) == v.val % TwoTo16

\* getFreePort(): a port the OS assigned, or an error.
FreePorts == {49152, 60999}
getFreePort == {[port |-> p, err |-> ""] : p \in FreePorts}
               \cup {[port |-> 0, err |-> "listen"]}

PortResult(port, e, t) == [fn |-> "getPort", port |-> port, err |-> e, errType |-> t]

\* Variant of getPort: a flag of the wrong type is passed over and the config
\* file is consulted.
getPortFallsThrough(flags, configFile, portKey, free) ==
    IF portKey \in DOMAIN flags /\ flags[portKey].type \in {"int", "float64"}
    THEN IF flags[portKey].type = "int"
         THEN PortResult(Uint16OfInt(flags[portKey].val), "", "")
         ELSE PortResult(Uint16OfFloat(flags[portKey]), "", "")
    ELSE IF portKey \in DOMAIN configFile
         THEN IF configFile[portKey].type = "float64"
              THEN PortResult(Uint16OfFloat(configFile[portKey]), "", "")
              ELSE PortResult(0, "expected flag to be float64",
                              configFile[portKey].type)
         ELSE IF free.err # ""
              THEN PortResult(0, "couldn't get free port", "")
              ELSE PortResult(free.port, "", "")

\* getPort, part_000 lines 139-166; free is what getFreePort returns when it
\* is called.
getPort(flags, configFile, portKey, free) ==
    IF portKey \in DOMAIN flags
    THEN LET portIntf == flags[portKey]
         IN CASE portIntf.type = "int" ->
                     PortResult(Uint16OfInt(portIntf.val), "", "")
              [] portIntf.type = "float64" ->
                     PortResult(Uint16OfFloat(portIntf), "", "")
              [] OTHER ->
                     PortResult(0, "expected flag to be int/float64", portIntf.type)
    ELSE IF portKey \in DOMAIN configFile
         THEN LET portIntf == configFile[portKey]
              IN IF portIntf.type # "float64"
                 THEN PortResult(0, "expected flag to be float64", portIntf.type)
                 ELSE PortResult(Uint16OfFloat(portIntf), "", "")
         ELSE IF free.err # ""
              THEN PortResult(0, "couldn't get free port", "")
              ELSE PortResult(free.port, "", "")

\* A call getPort(flags, configFile, portKey), of a run that calls one helper.
GetPort(flags, configFile, portKey) ==
    /\ call.fn = "none"
    /\ call' = [fn |-> "getPort", flags |-> flags, configFile |-> configFile,
                key |-> portKey]
    /\ \E free \in getFreePort : ret' = getPort(flags, configFile, portKey, free)
    /\ UNCHANGED <<attachVars, networkConfigFlags, nodeConfigFlags,
                   nodeConfigFlagsBefore, merges, fsDirs, fsFiles>>

PortNext ==
    \E flags \in PortMaps, configFile \in PortMaps, portKey \in PortKeys :
        GetPort(flags, configFile, portKey)

SpecPort == Init /\ [][PortNext]_vars

EmptyString == 0
GoString(n) == GoValue("string", n, 0)

EntryValues ==
    {GoString(1), GoString(2), GoValue("int", 8080, 0),
     GoValue("float64", 9090, 0), GoValue("bool", 1, 0)}
EntryKeys == {"db-dir", "log-dir"}
EntryMaps == UNION {[D -> EntryValues] : D \in SUBSET EntryKeys}
DefaultVals == {3, 4}

\* What %T prints for a value.
TypeName(v) == v.type

EntryResult(v, e, t) ==
    [fn |-> "getConfigEntry", val |-> v, err |-> e, errType |-> t]

\* getConfigEntry, part_000 lines 115-135.  entry is the string variable of
\* line 121: the entry of lines 123 and 129 is local to its if statement, so
\* the %T of lines 126 and 132 formats the variable of line 121.
getConfigEntry(nodeConfigFlagsArg, configFile, flag, defaultVal) ==
    LET entry == GoString(EmptyString)
    IN IF flag \in DOMAIN nodeConfigFlagsArg
       THEN LET val == nodeConfigFlagsArg[flag]
            IN IF val.type = "string"
               THEN EntryResult(val.val, "", "")
               ELSE EntryResult(EmptyString,
                                "expected node config flag to be string",
                                TypeName(entry))
       ELSE IF flag \in DOMAIN configFile
            THEN LET val == configFile[flag]
                 IN IF val.type = "string"
                    THEN EntryResult(val.val, "", "")
                    ELSE EntryResult(EmptyString,
                                     "expected config file flag to be string",
                                     TypeName(entry))
            ELSE EntryResult(defaultVal, "", "")

\* A call getConfigEntry(nodeConfigFlags, configFile, flag, defaultVal).
GetConfigEntry(flags, configFile, flag, defaultVal) ==
    /\ call.fn = "none"
    /\ call' = [fn |-> "getConfigEntry", flags |-> flags,
                configFile |-> configFile, key |-> flag, def |-> defaultVal]
    /\ ret' = getConfigEntry(flags, configFile, flag, defaultVal)
    /\ UNCHANGED <<attachVars, networkConfigFlags, nodeConfigFlags,
                   nodeConfigFlagsBefore, merges, fsDirs, fsFiles>>

EntryNext ==
    \E flags \in EntryMaps, configFile \in EntryMaps, flag \in EntryKeys,
       defaultVal \in DefaultVals :
        GetConfigEntry(flags, configFile, flag, defaultVal)

SpecEntry == Init /\ [][EntryNext]_vars

\* The first source that holds the flag of a getConfigEntry call, and what
\* it holds.
EntryFound == call.key \in DOMAIN call.flags \/ call.key \in DOMAIN call.configFile
EntryFirst ==
    IF call.key \in DOMAIN call.flags THEN call.flags[call.key]
    ELSE call.configFile[call.key]

\* C12: getConfigEntry returns the nodeFlags string, else the config file
\* string, else the default; a non-string in the first source that holds the
\* flag is a type-mismatch error that reports the actual type of the value
\* found, with no coercion and no falling through.
ConfigEntryContract ==
    call.fn = "getConfigEntry" =>
        /\ ~EntryFound => ret.err = "" /\ ret.val = call.def
        /\ EntryFound /\ EntryFirst.type = "string" =>
              ret.err = "" /\ ret.val = EntryFirst.val
        /\ EntryFound /\ EntryFirst.type # "string" =>
              /\ ret.err # ""
              /\ ret.val = EmptyString
              /\ ret.errType = EntryFirst.type

\* The part of C12 the code keeps: precedence, no coercion, no falling
\* through.
ConfigEntryPrecedence ==
    call.fn = "getConfigEntry" =>
        /\ ~EntryFound => ret.err = "" /\ ret.val = call.def
        /\ EntryFound /\ EntryFirst.type = "string" =>
              ret.err = "" /\ ret.val = EntryFirst.val
        /\ EntryFound /\ EntryFirst.type # "string" =>
              /\ ret.val = EmptyString
              /\ ret.err = IF call.key \in DOMAIN call.flags
                           THEN "expected node config flag to be string"
                           ELSE "expected config file flag to be string"

(***************************************************************************)
(* GetFlag.  node.config.ConfigFile is a text: empty, not a JSON object,   *)
(* or a JSON object whose members are JSON strings, numbers, booleans or   *)
(* null.  node.config.Flags is nil or a map.                               *)
(***************************************************************************)
JSONValue(k, v) == [kind |-> k, val |-> v]
JSONValues ==
    {JSONValue("string", 1), JSONValue("number", 9090), JSONValue("bool", 1),
     JSONValue("null", 0)}
FlagKeys == {"db-dir", "log-dir"}
JSONObjects == UNION {[D -> JSONValues] : D \in SUBSET FlagKeys}
ConfigFiles ==
    {[text |-> "empty", members |-> EmptyMap],
     [text |-> "invalid", members |-> EmptyMap]}
    \cup {[text |-> "object", members |-> o] : o \in JSONObjects}

NodeFlagValues == {GoString(2), GoValue("int", 8080, 0), GoValue("bool", 1, 0)}
NodeFlags ==
    {[isNil |-> TRUE, m |-> EmptyMap]}
    \cup {[isNil |-> FALSE, m |-> f] :
            f \in UNION {[D -> NodeFlagValues] : D \in SUBSET FlagKeys}}

\* What json.Unmarshal stores in a map[string]interface{} for a member.
UnmarshalValue(j) ==
    CASE j.kind = "string" -> GoString(j.val)
      [] j.kind = "number" -> GoValue("float64", j.val, 0)
      [] j.kind = "bool" -> GoValue("bool", j.val, 0)
      [] OTHER -> GoValue("<nil>", 0, 0)

\* json.Unmarshal([]byte(text), &configFileMap).
Unmarshal(doc) ==
    IF doc.text = "object"
    THEN [err |-> "", m |-> [k \in DOMAIN doc.members |->
                                UnmarshalValue(doc.members[k])]]
    ELSE [err |-> "unmarshal", m |-> EmptyMap]

FlagResult(v, e, t) == [fn |-> "GetFlag", val |-> v, err |-> e, errType |-> t]

\* The string lookup both branches of GetFlag make, node.go lines 273-279 and
\* 281-287.
StringLookup(m, k) ==
    IF k \in DOMAIN m
    THEN IF m[k].type = "string"
         THEN FlagResult(m[k].val, "", "")
         ELSE FlagResult(EmptyString, "unexpected type", TypeName(m[k]))
    ELSE FlagResult(EmptyString, "", "")

\* Variant of GetFlag: a key the document does not define is looked up in
\* the flag map.
GetFlagPerKey(config, k) ==
    IF config.ConfigFile.text # "empty"
       /\ Unmarshal(config.ConfigFile).err # ""
    THEN FlagResult(EmptyString, Unmarshal(config.ConfigFile).err, "")
    ELSE IF config.ConfigFile.text # "empty"
            /\ k \in DOMAIN Unmarshal(config.ConfigFile).m
         THEN StringLookup(Unmarshal(config.ConfigFile).m, k)
         ELSE IF ~config.Flags.isNil
              THEN StringLookup(config.Flags.m, k)
              ELSE FlagResult(EmptyString, "", "")

\* GetFlag, node.go lines 266-291.
GetFlag(config, k) ==
    IF config.ConfigFile.text # "empty"
    THEN LET parsed == Unmarshal(config.ConfigFile)
         IN IF parsed.err # ""
            THEN FlagResult(EmptyString, parsed.err, "")
            ELSE StringLookup(parsed.m, k)
    ELSE IF ~config.Flags.isNil
         THEN StringLookup(config.Flags.m, k)
         ELSE FlagResult(EmptyString, "", "")

\* A call node.GetFlag(k) on a node with the given config.
CallGetFlag(config, k) ==
    /\ call.fn = "none"
    /\ call' = [fn |-> "GetFlag", config |-> config, key |-> k]
    /\ ret' = GetFlag(config, k)
    /\ UNCHANGED <<attachVars, networkConfigFlags, nodeConfigFlags,
                   nodeConfigFlagsBefore, merges, fsDirs, fsFiles>>

GetFlagNext ==
    \E doc \in ConfigFiles, flags \in NodeFlags, k \in FlagKeys :
        CallGetFlag([ConfigFile |-> doc, Flags |-> flags], k)

SpecGetFlag == Init /\ [][GetFlagNext]_vars

\* The document and the flag map of a GetFlag call, as maps of Go values.
CalledDocument == Unmarshal(call.config.ConfigFile).m
CalledFlags == call.config.Flags.m

\* What a source holding k gives: its string, or a type-mismatch error.
GivenBy(m) ==
    IF m[call.key].type = "string"
    THEN ret.err = "" /\ ret.val = m[call.key].val
    ELSE ret.err = "unexpected type" /\ ret.val = EmptyString

\* C13: GetFlag(k) returns the document's string for k when the document
\* defines k and otherwise the flag map's string for k, a key set only in the
\* flag map being returned from the flag map; a non-string is a type-mismatch
\* error; a key defined nowhere gives the empty string and no error.
GetFlagFallsBackToFlagMap ==
    call.fn = "GetFlag" /\ call.config.ConfigFile.text # "invalid" =>
        IF call.key \in DOMAIN CalledDocument THEN GivenBy(CalledDocument)
        ELSE IF call.key \in DOMAIN CalledFlags THEN GivenBy(CalledFlags)
        ELSE ret.err = "" /\ ret.val = EmptyString

\* C13 as the code has it: GetFlag(k) consults one source, the document when
\* the config-file text is not empty and the flag map only when it is empty.
\* A text that is not a JSON object is an error.  In the source consulted a
\* string is returned, a non-string is a type-mismatch error reporting its
\* type, an absent key gives the empty string and no error, whatever the
\* other source holds.
GetFlagConsultsOneSource ==
    call.fn = "GetFlag" =>
        LET source == IF call.config.ConfigFile.text = "empty"
                      THEN CalledFlags ELSE CalledDocument
        IN IF call.config.ConfigFile.text = "invalid"
           THEN ret.err = "unmarshal" /\ ret.val = EmptyString
           ELSE IF call.key \in DOMAIN source
                THEN /\ GivenBy(source)
                     /\ ret.err # "" => ret.errType = source[call.key].type
                ELSE ret.err = "" /\ ret.val = EmptyString

\* Witness of C13: the document is a JSON object without the key, the flag
\* map holds the key with a string, and the call returned the empty string.
FlagMapEntryNotReturned ==
    /\ call.fn = "GetFlag"
    /\ call.config.ConfigFile.text = "object"
    /\ call.key \notin DOMAIN CalledDocument
    /\ call.key \in DOMAIN CalledFlags
    /\ CalledFlags[call.key] = GoString(2)
    /\ ret.err = "" /\ ret.val = EmptyString

(***************************************************************************)
(* The file system the provisioning helpers write to.  A path is the       *)
(* sequence of its elements; fsDirs is the set of directories, fsFiles     *)
(* maps the path of every regular file to its contents.                    *)
(***************************************************************************)
MaxSteps == 11

\* filepath.Join(dir, name): an empty element is dropped.
Join(dir, name) == IF name = "" THEN dir ELSE dir \o <<name>>

\* filepath.Dir(path).
Dir(path) == SubSeq(path, 1, Len(path) - 1)

\* The path and the directories above it.
Prefixes(path) == {SubSeq(path, 1, n) : n \in 1..Len(path)}

FileSystem(dirs, files) == [dirs |-> dirs, files |-> files]

\* os.MkdirAll(path, 0o750): fails when the OS refuses (fail) or when the
\* path or a directory above it is a regular file.
MkdirAll(fs, path, fail) ==
    IF fail \/ \E q \in Prefixes(path) : q \in DOMAIN fs.files
    THEN [fs |-> fs, err |-> "mkdir"]
    ELSE [fs |-> FileSystem(fs.dirs \cup Prefixes(path), fs.files), err |-> ""]

\* createFileAndWrite, part_000 lines 192-203.  fault is the operation the OS
\* refuses, if any; os.Create truncates, and a refused Write leaves the file
\* empty.
createFileAndWrite(fs, path, contents, fault) ==
    LET made == MkdirAll(fs, Dir(path), fault = "mkdir")
    IN IF made.err # "" THEN made
       ELSE IF fault = "create" \/ path \in made.fs.dirs
            THEN [fs |-> made.fs, err |-> "create"]
            ELSE IF fault = "write"
                 THEN [fs |-> FileSystem(made.fs.dirs,
                                         MapStore(made.fs.files, path, "")),
                       err |-> "write"]
                 ELSE [fs |-> FileSystem(made.fs.dirs,
                                         MapStore(made.fs.files, path, contents)),
                       err |-> ""]

\* File and directory names under a node root, and the flag keys of the
\* node's config package.
stakingKeyFileName == "staking.key"
stakingCertFileName == "staking.crt"
stakingSigningKeyFileName == "signer.key"
genesisFileName == "genesis.json"
configFileName == "config.json"
upgradeConfigFileName == "upgrade.json"
chainConfigSubDir == "chainConfigs"
subnetConfigSubDir == "subnetConfigs"
StakingTLSKeyPathKey == "staking-tls-key-file"
StakingCertPathKey == "staking-tls-cert-file"
StakingSignerKeyPathKey == "staking-signer-key-file"
GenesisFileKey == "genesis-file"
ConfigFileKey == "config-file"
ChainConfigDirKey == "chain-config-dir"
SubnetConfigDirKey == "subnet-config-dir"

\* constants.LocalID.
LocalID == 12345

\* base64.StdEncoding.DecodeString.
DecodeString(text) ==
    CASE text = "c2lnbmVy" -> [bytes |-> "signer", err |-> ""]
      [] text = "" -> [bytes |-> "", err |-> ""]
      [] OTHER -> [bytes |-> "", err |-> "illegal base64 data"]

\* subnetID + ".json".
JsonName(subnetID) ==
    CASE subnetID = "subnet1" -> "subnet1.json"
      [] OTHER -> "subnet2.json"

\* One thing writeFiles does to the file system: a file it writes or a
\* directory it makes.  pathKey is the flag it records, wrapped whether a
\* failure is wrapped with the path.
FileStep(pathKey, path, contents) ==
    [kind |-> "file", pathKey |-> pathKey, path |-> path, contents |-> contents,
     wrapped |-> TRUE]
DirStep(pathKey, path) ==
    [kind |-> "dir", pathKey |-> pathKey, path |-> path, contents |-> "",
     wrapped |-> FALSE]

\* The three credential files, part_000 lines 35-54.
CredentialSteps(nodeRootDir, nodeConfig, decodedStakingSigningKey) ==
    <<FileStep(StakingTLSKeyPathKey, Join(nodeRootDir, stakingKeyFileName),
               nodeConfig.StakingKey),
      FileStep(StakingCertPathKey, Join(nodeRootDir, stakingCertFileName),
               nodeConfig.StakingCert),
      FileStep(StakingSignerKeyPathKey,
               Join(nodeRootDir, stakingSigningKeyFileName),
               decodedStakingSigningKey)>>

\* Variant of GenesisSteps: the genesis file is written for every network.
GenesisStepsAlways(networkID, genesis, nodeRootDir) ==
    <<FileStep(GenesisFileKey, Join(nodeRootDir, genesisFileName), genesis)>>

\* The genesis file, part_000 lines 55-62.
GenesisSteps(networkID, genesis, nodeRootDir) ==
    IF networkID # LocalID
    THEN <<FileStep(GenesisFileKey, Join(nodeRootDir, genesisFileName), genesis)>>
    ELSE <<>>

\* Variant of ConfigFileSteps: the config file is written even when empty.
ConfigFileStepsAlways(nodeRootDir, nodeConfig) ==
    <<FileStep(ConfigFileKey, Join(nodeRootDir, configFileName),
               nodeConfig.ConfigFile)>>

\* The config file, part_000 lines 63-70.
ConfigFileSteps(nodeRootDir, nodeConfig) ==
    IF nodeConfig.ConfigFile # ""
    THEN <<FileStep(ConfigFileKey, Join(nodeRootDir, configFileName),
                    nodeConfig.ConfigFile)>>
    ELSE <<>>

\* The chain-config and subnet-config directories, part_000 lines 79-89.
DirSteps(nodeRootDir) ==
    <<DirStep(ChainConfigDirKey, Join(nodeRootDir, chainConfigSubDir)),
      DirStep(SubnetConfigDirKey, Join(nodeRootDir, subnetConfigSubDir))>>

\* The orders in which a range statement can visit the keys of a map.
RangeOrders(m) ==
    {q \in [1..Cardinality(DOMAIN m) -> DOMAIN m] :
        \A i, j \in 1..Cardinality(DOMAIN m) : i # j => q[i] # q[j]}

\* One file per chain alias, part_000 lines 91-103, visited in the given
\* order.
ChainSteps(chainConfigDir, files, order, fileName) ==
    [i \in 1..Len(order) |->
        FileStep("", Join(Join(chainConfigDir, order[i]), fileName),
                 files[order[i]])]

\* One file per subnet, part_000 lines 105-110.
SubnetSteps(subnetConfigDir, files, order) ==
    [i \in 1..Len(order) |->
        FileStep("", Join(subnetConfigDir, JsonName(order[i])), files[order[i]])]

\* What writeFiles returns, with the file system it leaves: errPath is the
\* path the error is wrapped with, done the paths of the steps that
\* succeeded.
WriteResult(flags, isNil, e, errPath, done, fs) ==
    [fn |-> "writeFiles", flags |-> flags, isNil |-> isNil, err |-> e,
     errPath |-> errPath, done |-> done, fs |-> fs]

RECURSIVE RunStepsCleansUp(_, _, _, _, _, _, _)
RECURSIVE RunSteps(_, _, _, _, _, _, _)

\* Variant of RunSteps: a failure removes the files written before it.
RunStepsCleansUp(steps, i, fs, flags, done, failAt, mode) ==
    IF i > Len(steps)
    THEN WriteResult(flags, FALSE, "", <<>>, done, fs)
    ELSE LET s == steps[i]
             fault == IF i = failAt THEN mode ELSE "none"
             res == IF s.kind = "file"
                    THEN createFileAndWrite(fs, s.path, s.contents, fault)
                    ELSE MkdirAll(fs, s.path, fault # "none")
         IN IF res.err # ""
            THEN WriteResult(EmptyMap, TRUE, res.err,
                             IF s.wrapped THEN s.path ELSE <<>>, done,
                             FileSystem(res.fs.dirs,
                                 [q \in DOMAIN res.fs.files \ Range(done) |->
                                     res.fs.files[q]]))
            ELSE RunStepsCleansUp(steps, i + 1, res.fs,
                         IF s.pathKey # "" THEN MapStore(flags, s.pathKey, s.path)
                                           ELSE flags,
                         Append(done, s.path), failAt, mode)

\* The steps of writeFiles from the i-th on, part_000 lines 71-111: the first
\* failure returns at once, with no flag map.  The failAt-th step is the one
\* the OS refuses, in the given mode.
RunSteps(steps, i, fs, flags, done, failAt, mode) ==
    IF i > Len(steps)
    THEN WriteResult(flags, FALSE, "", <<>>, done, fs)
    ELSE LET s == steps[i]
             fault == IF i = failAt THEN mode ELSE "none"
             res == IF s.kind = "file"
                    THEN createFileAndWrite(fs, s.path, s.contents, fault)
                    ELSE MkdirAll(fs, s.path, fault # "none")
         IN IF res.err # ""
            THEN WriteResult(EmptyMap, TRUE, res.err,
                             IF s.wrapped THEN s.path ELSE <<>>, done, res.fs)
            ELSE RunSteps(steps, i + 1, res.fs,
                          IF s.pathKey # "" THEN MapStore(flags, s.pathKey, s.path)
                                            ELSE flags,
                          Append(done, s.path), failAt, mode)

\* The steps of a writeFiles call in the order it takes them.
WriteSteps(networkID, genesis, nodeRootDir, nodeConfig, decoded, env) ==
    CredentialSteps(nodeRootDir, nodeConfig, decoded)
    \o GenesisSteps(networkID, genesis, nodeRootDir)
    \o ConfigFileSteps(nodeRootDir, nodeConfig)
    \o DirSteps(nodeRootDir)
    \o ChainSteps(Join(nodeRootDir, chainConfigSubDir),
                  nodeConfig.ChainConfigFiles, env.chainOrder, configFileName)
    \o ChainSteps(Join(nodeRootDir, chainConfigSubDir),
                  nodeConfig.UpgradeConfigFiles, env.upgradeOrder,
                  upgradeConfigFileName)
    \o SubnetSteps(Join(nodeRootDir, subnetConfigSubDir),
                   nodeConfig.SubnetConfigFiles, env.subnetOrder)

\* Variant of writeFiles: the signing key is decoded when its file is due, the
\* staking key and certificate being written already.
writeFilesDecodesLate(networkID, genesis, nodeRootDir, nodeConfig, fs, env) ==
    LET decoded == DecodeString(nodeConfig.StakingSigningKey)
        early == RunSteps(SubSeq(CredentialSteps(nodeRootDir, nodeConfig, ""), 1, 2),
                          1, fs, EmptyMap, <<>>, env.failAt, env.mode)
    IN IF decoded.err # "" /\ early.err = ""
       THEN WriteResult(EmptyMap, TRUE, decoded.err, <<>>, early.done, early.fs)
       ELSE RunSteps(WriteSteps(networkID, genesis, nodeRootDir, nodeConfig,
                                decoded.bytes, env),
                     1, fs, EmptyMap, <<>>, env.failAt, env.mode)

\* writeFiles, part_000 lines 24-112, on the file system fs; env is what the
\* call does not choose: the order of the map iterations and the operation
\* the OS refuses.
writeFiles(networkID, genesis, nodeRootDir, nodeConfig, fs, env) ==
    LET decoded == DecodeString(nodeConfig.StakingSigningKey)
    IN IF decoded.err # ""
       THEN WriteResult(EmptyMap, TRUE, decoded.err, <<>>, <<>>, fs)
       ELSE RunSteps(WriteSteps(networkID, genesis, nodeRootDir, nodeConfig,
                                decoded.bytes, env),
                     1, fs, EmptyMap, <<>>, env.failAt, env.mode)

\* The inputs of writeFiles.
NetworkIDs == {LocalID, 1}
GenesisPayloads == {"genesis"}
NodeRootDir == <<"root", "node1">>
ValidBase64 == {"c2lnbmVy", ""}
SigningKeys == ValidBase64 \cup {"c2ln!"}
ConfigMaps(ids, contents) == UNION {[D -> {contents}] : D \in SUBSET ids}
NodeConfigs ==
    [StakingKey : {"key-pem"}, StakingCert : {"cert-pem"},
     StakingSigningKey : SigningKeys, ConfigFile : {"", "{}"},
     ChainConfigFiles : ConfigMaps({"C", "X"}, "chain-config"),
     UpgradeConfigFiles : ConfigMaps({"C"}, "chain-upgrade"),
     SubnetConfigFiles : ConfigMaps({"subnet1"}, "subnet-config")]
FaultModes == {"mkdir", "create", "write"}
Environments(nodeConfig) ==
    [chainOrder : RangeOrders(nodeConfig.ChainConfigFiles),
     upgradeOrder : RangeOrders(nodeConfig.UpgradeConfigFiles),
     subnetOrder : RangeOrders(nodeConfig.SubnetConfigFiles),
     failAt : 0..MaxSteps, mode : FaultModes]

\* The node root as makeNodeDir left it: empty, holding a staking key of an
\* earlier start, or holding a regular file where the chain-config directory
\* is to be.
InitialFiles ==
    {EmptyMap,
     [q \in {Join(NodeRootDir, stakingKeyFileName)} |-> "old-key"],
     [q \in {Join(NodeRootDir, chainConfigSubDir)} |-> "stray"]}

\* A call writeFiles(networkID, genesis, NodeRootDir, nodeConfig).
WriteFiles(networkID, genesis, nodeConfig, env) ==
    /\ call.fn = "none"
    /\ call' = [fn |-> "writeFiles", networkID |-> networkID,
                genesis |-> genesis, nodeRootDir |-> NodeRootDir,
                nodeConfig |-> nodeConfig, fs |-> FileSystem(fsDirs, fsFiles)]
    /\ LET r == writeFiles(networkID, genesis, NodeRootDir, nodeConfig,
                           FileSystem(fsDirs, fsFiles), env)
       IN /\ ret' = [fn |-> r.fn, flags |-> r.flags, isNil |-> r.isNil,
                     err |-> r.err, errPath |-> r.errPath, done |-> r.done]
          /\ fsDirs' = r.fs.dirs
          /\ fsFiles' = r.fs.files
    /\ UNCHANGED <<attachVars, networkConfigFlags, nodeConfigFlags,
                   nodeConfigFlagsBefore, merges>>

WriteNext ==
    \E networkID \in NetworkIDs, genesis \in GenesisPayloads,
       nodeConfig \in NodeConfigs :
        \E env \in Environments(nodeConfig) :
            WriteFiles(networkID, genesis, nodeConfig, env)

WriteInit ==
    /\ AttachInit
    /\ FlagInit
    /\ call = [fn |-> "none"]
    /\ ret = [fn |-> "none"]
    /\ fsDirs = Prefixes(NodeRootDir)
    /\ fsFiles \in InitialFiles

SpecWrite == WriteInit /\ [][WriteNext]_vars

\* A writeFiles call that returned, and one that returned without error.
WriteReturned == call.fn = "writeFiles"
WriteSucceeded == WriteReturned /\ ret.err = ""

\* The file at path was left as the call found it.
Untouched(path) ==
    /\ path \notin Range(ret.done)
    /\ path \in DOMAIN fsFiles <=> path \in DOMAIN call.fs.files
    /\ path \in DOMAIN fsFiles => fsFiles[path] = call.fs.files[path]

\* The file at path holds contents and the flag key maps to the path.
WrittenAndFlagged(key, path, contents) ==
    /\ path \in DOMAIN fsFiles
    /\ fsFiles[path] = contents
    /\ key \in DOMAIN ret.flags
    /\ ret.flags[key] = path

\* C14: a staking signing key that is not valid base64 makes writeFiles
\* return an error and no flag map, no file or directory having been created
\* or modified.
DecodeFailureWritesNothing ==
    WriteReturned /\ call.nodeConfig.StakingSigningKey \notin ValidBase64 =>
        /\ ret.err # ""
        /\ ret.isNil
        /\ fsDirs = call.fs.dirs
        /\ fsFiles = call.fs.files

\* Witness of C14: the call failed on the signing key and the staking key of
\* an earlier start is still in its file.
DecodeFailedBesideOldKey ==
    /\ WriteReturned
    /\ call.nodeConfig.StakingSigningKey \notin ValidBase64
    /\ ret.err = "illegal base64 data"
    /\ Join(NodeRootDir, stakingKeyFileName) \in DOMAIN fsFiles
    /\ fsFiles[Join(NodeRootDir, stakingKeyFileName)] = "old-key"

\* C15: after a successful writeFiles the genesis file holds the genesis
\* payload and the genesis flag key maps to its path exactly when the network
\* ID is not the local one; for the local network no genesis file is written
\* and the key is absent.
GenesisIffNotLocal ==
    WriteSucceeded =>
        IF call.networkID # LocalID
        THEN WrittenAndFlagged(GenesisFileKey, Join(NodeRootDir, genesisFileName),
                               call.genesis)
        ELSE /\ Untouched(Join(NodeRootDir, genesisFileName))
             /\ GenesisFileKey \notin DOMAIN ret.flags

\* Witness of C15: a successful call for the local network, without genesis.
LocalNetworkWithoutGenesis ==
    /\ WriteSucceeded
    /\ call.networkID = LocalID
    /\ GenesisFileKey \notin DOMAIN ret.flags
    /\ StakingTLSKeyPathKey \in DOMAIN ret.flags

\* C16: after a successful writeFiles an empty config-file text leaves no
\* config file and no config-file key, a non-empty one is in the file and the
\* key maps to its path; the staking key, staking certificate, signer key,
\* chain-config directory and subnet-config directory keys are always there.
ConfigFileIffNonEmpty ==
    WriteSucceeded =>
        /\ IF call.nodeConfig.ConfigFile # ""
           THEN WrittenAndFlagged(ConfigFileKey, Join(NodeRootDir, configFileName),
                                  call.nodeConfig.ConfigFile)
           ELSE /\ Untouched(Join(NodeRootDir, configFileName))
                /\ ConfigFileKey \notin DOMAIN ret.flags
        /\ {StakingTLSKeyPathKey, StakingCertPathKey, StakingSignerKeyPathKey,
            ChainConfigDirKey, SubnetConfigDirKey} \subseteq DOMAIN ret.flags

\* Witness of C16: a successful call with an empty config-file text.
EmptyConfigTextNoConfigFile ==
    /\ WriteSucceeded
    /\ call.nodeConfig.ConfigFile = ""
    /\ ConfigFileKey \notin DOMAIN ret.flags
    /\ ChainConfigDirKey \in DOMAIN ret.flags
    /\ Join(NodeRootDir, chainConfigSubDir) \in fsDirs

\* The files a writeFiles call is to write, as pairs of path and contents.
WantedFiles ==
    LET nc == call.nodeConfig
        chainConfigDir == Join(NodeRootDir, chainConfigSubDir)
        subnetConfigDir == Join(NodeRootDir, subnetConfigSubDir)
    IN {<<Join(NodeRootDir, stakingKeyFileName), nc.StakingKey>>,
        <<Join(NodeRootDir, stakingCertFileName), nc.StakingCert>>,
        <<Join(NodeRootDir, stakingSigningKeyFileName),
          DecodeString(nc.StakingSigningKey).bytes>>}
       \cup (IF call.networkID # LocalID
             THEN {<<Join(NodeRootDir, genesisFileName), call.genesis>>} ELSE {})
       \cup (IF nc.ConfigFile # ""
             THEN {<<Join(NodeRootDir, configFileName), nc.ConfigFile>>} ELSE {})
       \cup {<<Join(Join(chainConfigDir, a), configFileName),
               nc.ChainConfigFiles[a]>> : a \in DOMAIN nc.ChainConfigFiles}
       \cup {<<Join(Join(chainConfigDir, a), upgradeConfigFileName),
               nc.UpgradeConfigFiles[a]>> : a \in DOMAIN nc.UpgradeConfigFiles}
       \cup {<<Join(subnetConfigDir, JsonName(n)), nc.SubnetConfigFiles[n]>> :
               n \in DOMAIN nc.SubnetConfigFiles}
WantedDirs ==
    {Join(NodeRootDir, chainConfigSubDir), Join(NodeRootDir, subnetConfigSubDir)}

\* A writeFiles call that failed on a file or directory operation.
WriteFailedOnIO ==
    WriteReturned /\ ret.err \in {"mkdir", "create", "write"}

\* A failed call returned at once: no flag map, the steps done are some but
\* not all of those wanted, every file written before the failure holds its
\* full contents, and every other file but the one the error names is as the
\* call found it.
ReturnedAtFirstFailure ==
    /\ ret.isNil
    /\ Range(ret.done) \subseteq {w[1] : w \in WantedFiles} \cup WantedDirs
    /\ Len(ret.done) < Cardinality(WantedFiles) + Cardinality(WantedDirs)
    /\ \A w \in WantedFiles :
          w[1] \in Range(ret.done) => w[1] \in DOMAIN fsFiles /\ fsFiles[w[1]] = w[2]
    /\ \A d \in WantedDirs : d \in Range(ret.done) => d \in fsDirs
    /\ \A q \in (DOMAIN fsFiles \cup DOMAIN call.fs.files) \ Range(ret.done) :
          q = ret.errPath \/ Untouched(q)

AttachSucceeds ==
    \E c \in Calls : pc[c] = "Registering" /\ pc'[c] = "Attached"

\* C18: over any sequence of AttachPeer and SendOutboundMessage calls the key
\* set of attachedPeers never shrinks and only a successful AttachPeer changes
\* the registry; SendOutboundMessage never modifies it, and a registered peer
\* that has closed stays registered, a send to it returning false with no
\* error and not the "not attached" error.
RegistryOnlyGrows ==
    [][/\ DOMAIN attachedPeers \subseteq DOMAIN attachedPeers'
       /\ attachedPeers' # attachedPeers => AttachSucceeds
       /\ SendStep => attachedPeers' = attachedPeers
       /\ \A k \in DOMAIN attachedPeers :
             (/\ SendStep
              /\ lastSend'.peerID = k
              /\ ~Pending(k)
              /\ peerClosed[attachedPeers[k]]) => lastSend'.result = "false"]_vars

\* C20: when AttachPeer fails after the dial succeeded, on the engine
\* configuration, the handshake, the readiness timeout or a cancellation, the
\* connection it opened and the peer it started are closed before it
\* returns: no peer runs against the node while absent from the registry.
FailedAttachClosesConnection ==
    \A c \in Calls :
        pc[c] = "Failed" =>
            /\ ~connOpen[c]
            /\ Started(c) => peerClosed[c]

(***************************************************************************)
(* makeNodeDir.  call.earlier lists the calls made before the last one,    *)
(* each with what it returned.                                             *)
(***************************************************************************)
MaxDirCalls == 2

RootDirs == {<<>>, <<"root">>, <<"missing">>}
NodeNames == {"node1", "node2"}

\* getNodeDir, part_000 lines 186-188.
getNodeDir(rootDir, nodeName) == Join(rootDir, nodeName)

\* os.Mkdir(path, 0o755): refused by the OS for a reason of its own, "file
\* exists" when the path is there, "no such file or directory" when the
\* directory above is not (the working directory, the empty path, always
\* is), else the directory is made.
Mkdir(fs, path, refused) ==
    CASE refused -> [fs |-> fs, err |-> "permission denied"]
      [] path \in fs.dirs \/ path \in DOMAIN fs.files ->
             [fs |-> fs, err |-> "file exists"]
      [] Len(path) > 1 /\ Dir(path) \notin fs.dirs ->
             [fs |-> fs, err |-> "no such file or directory"]
      [] OTHER -> [fs |-> FileSystem(fs.dirs \cup {path}, fs.files), err |-> ""]

\* os.IsExist(err).
IsExist(e) == e = "file exists"

DirResult(path, e, warned, fs) ==
    [fn |-> "makeNodeDir", path |-> path, err |-> e, warned |-> warned, fs |-> fs]

\* Variant of makeNodeDir: a directory that is already there is an error.
makeNodeDirFailsOnExisting(rootDir, nodeName, fs, refused) ==
    LET nodeRootDir == getNodeDir(rootDir, nodeName)
        made == Mkdir(fs, nodeRootDir, refused)
    IN IF made.err # ""
       THEN DirResult(<<>>, "error creating temp dir", FALSE, made.fs)
       ELSE DirResult(nodeRootDir, "", FALSE, made.fs)

\* makeNodeDir, part_000 lines 168-184, on the file system fs.
makeNodeDir(rootDir, nodeName, fs, refused) ==
    LET nodeRootDir == getNodeDir(rootDir, nodeName)
        made == Mkdir(fs, nodeRootDir, refused)
    IN IF made.err # ""
       THEN IF ~IsExist(made.err)
            THEN DirResult(<<>>, "error creating temp dir", FALSE, made.fs)
            ELSE DirResult(nodeRootDir, "", TRUE, made.fs)
       ELSE DirResult(nodeRootDir, "", FALSE, made.fs)

\* The calls made so far, the last one included.
DirCalls ==
    IF call.fn = "makeNodeDir"
    THEN Append(call.earlier, [rootDir |-> call.rootDir, nodeName |-> call.nodeName,
                               path |-> ret.path, err |-> ret.err])
    ELSE <<>>

\* A call makeNodeDir(log, rootDir, nodeName).
MakeNodeDir(rootDir, nodeName, refused) ==
    /\ call.fn \in {"none", "makeNodeDir"}
    /\ Len(DirCalls) < MaxDirCalls
    /\ call' = [fn |-> "makeNodeDir", rootDir |-> rootDir, nodeName |-> nodeName,
                refused |-> refused, earlier |-> DirCalls]
    /\ LET r == makeNodeDir(rootDir, nodeName, FileSystem(fsDirs, fsFiles), refused)
       IN /\ ret' = [fn |-> r.fn, path |-> r.path, err |-> r.err,
                     warned |-> r.warned]
          /\ fsDirs' = r.fs.dirs
          /\ fsFiles' = r.fs.files
    /\ UNCHANGED <<attachVars, networkConfigFlags, nodeConfigFlags,
                   nodeConfigFlagsBefore, merges>>

DirNext ==
    \E rootDir \in RootDirs, nodeName \in NodeNames, refused \in BOOLEAN :
        MakeNodeDir(rootDir, nodeName, refused)

\* The network root is there, with no node directory yet or with the
\* directory and a file of an earlier start of node1.
DirInit ==
    /\ AttachInit
    /\ FlagInit
    /\ call = [fn |-> "none"]
    /\ ret = [fn |-> "none"]
    /\ \/ fsDirs = {<<"root">>} /\ fsFiles = EmptyMap
       \/ /\ fsDirs = {<<"root">>, <<"root", "node1">>}
          /\ fsFiles = [q \in {<<"root", "node1", "staking.key">>} |-> "old-key"]

SpecDir == DirInit /\ [][DirNext]_vars

\* A step that is a makeNodeDir call.
MakeNodeDirStep == Len(DirCalls') = Len(DirCalls) + 1

\* C19: makeNodeDir is idempotent.  Called for a root and a name whose
\* directory already exists it succeeds and returns root/name, as every
\* earlier successful call for that root and name did, and it leaves the
\* directories and files as they were; any creation error other than
\* "already exists" makes it fail with an error and no path.
MakeNodeDirIdempotent ==
    /\ [](\A i, j \in 1..Len(DirCalls) :
             (/\ DirCalls[i].rootDir = DirCalls[j].rootDir
              /\ DirCalls[i].nodeName = DirCalls[j].nodeName
              /\ DirCalls[i].err = ""
              /\ DirCalls[j].err = "") => DirCalls[j].path = DirCalls[i].path)
    /\ [][MakeNodeDirStep =>
             LET dir == call'.rootDir \o <<call'.nodeName>>
             IN /\ (dir \in fsDirs /\ ~call'.refused) =>
                      /\ ret'.err = ""
                      /\ ret'.path = dir
                      /\ fsDirs' = fsDirs
                      /\ fsFiles' = fsFiles
                /\ (/\ dir \notin fsDirs
                    /\ \/ call'.refused
                       \/ Len(dir) > 1 /\ Dir(dir) \notin fsDirs) =>
                      /\ ret'.err # ""
                      /\ ret'.path = <<>>
                      /\ fsDirs' = fsDirs
                /\ (dir \in fsDirs /\ call'.refused) =>
                      ret'.err # "" /\ ret'.path = <<>>
                /\ ret'.err = "" => ret'.path = dir]_vars

\* Witness of C19: the second of two successful calls for root/node1 found
\* the directory there and left the file in it alone.
SecondCallReusesDirectory ==
    /\ Len(DirCalls) = 2
    /\ DirCalls[1].rootDir = <<"root">> /\ DirCalls[2].rootDir = <<"root">>
    /\ DirCalls[1].nodeName = "node1" /\ DirCalls[2].nodeName = "node1"
    /\ DirCalls[1].err = "" /\ DirCalls[2].err = ""
    /\ ret.warned
    /\ ret.path = <<"root", "node1">>
    /\ <<"root", "node1", "staking.key">> \in DOMAIN fsFiles

====
